---- MODULE Spec2Model ----
(***************************************************************************)
(* Panel Feedback: the stdio wrapper (Transport Front), the MCPServer HTTP *)
(* endpoint embedded in the extension host (Coordination Service), its     *)
(* pending-request ledger with the globalState snapshot, the port file and *)
(* the FeedbackPanelProvider (Collaborator) resolver.                      *)
(*                                                                         *)
(* Time is the wall clock Date.now() in milliseconds.  JavaScript objects  *)
(* are kept in a heap so that a request object captured by processRequest  *)
(* stays distinct from the entry the Map holds under its id.               *)
(***************************************************************************)
EXTENDS Integers, Sequences, FiniteSets, TLC

\* ---------------------------------------------------------------- bounds
MaxIds == 2          \* request ids ever generated (crypto.randomUUID values)
MaxPolls == 3        \* poll round trips of one tools/call (SpecFront)
MaxRefusalPolls == 12 \* poll round trips of one tools/call (SpecRefusal)
MaxJumps == 1        \* long passages of wall-clock time
MaxImages == 3       \* images pasted with one feedback
MaxPortSpan == 50    \* port values a port file is read with
MaxCalls == 2        \* tools/call lines in flight at once (SpecLines)
MaxLines == 1        \* other lines the wrapper is sent (SpecLines)
MaxLinePolls == 1    \* poll round trips of one tools/call (SpecLines)
MaxObjects == 2      \* request objects in memory when an id is submitted again
MaxLivePolls == 250    \* polls of one tools/call, more than the soft timeout lets it make

\* ------------------------------------------------------- program constants
DEFAULT_PORT == 19876
POLL_INTERVAL == 500
SOFT_TIMEOUT == 120000
MAX_POLL_TIME == 86400000 * 7
SEVEN_DAYS == 7 * 24 * 60 * 60 * 1000
RefusalBudget == 10

Ids == 1..MaxIds
\* The JSON-RPC ids of the tools/call lines the wrapper may be sent.
Calls == 1..MaxCalls

\* Ports the OS hands out for listen(0, '127.0.0.1').
EphemeralPorts == {49152, 49153}
NoPort == 0

\* ------------------------------------------------------------ messages
NotFoundMsg == "Request not found"
UnknownErrorMsg == "Unknown error"
NotStartedMsg == "extension not started: open the Panel Feedback panel"
HardTimeoutMsg == "Poll timeout after 7 days"
SoftTimeoutText == "user has not responded yet: call panel_feedback again"
EndSentinel == "[user ended the conversation]"
\* err.message of the TypeError raised by request.params.arguments
NoParamsMsg == "Cannot read properties of undefined (reading 'arguments')"
\* err.message of a rejected executeCommand('feedbackPanel.view.focus')
FocusFailedMsg == "command 'feedbackPanel.view.focus' not found"

None == [none |-> TRUE]
\* An absent string property (undefined; JSON.stringify leaves it out).
Undefined == "<undefined>"

\* ------------------------------------------------------------ feedback
\* A string the human can type in the panel, with what JSON.parse makes of
\* it: it throws, or returns null, a number, a boolean, a string, an array or
\* an object, whose text property is kept (Undefined when it has none).
TypedTexts == {"", "hello", "42", "true", "null", "\"hi\"", "[1]", "{}", "{\"text\":\"x\"}"}

JSONParse(s) ==
    CASE s = "42" -> [kind |-> "number", text |-> Undefined]
      [] s = "true" -> [kind |-> "boolean", text |-> Undefined]
      [] s = "null" -> [kind |-> "null", text |-> Undefined]
      [] s = "\"hi\"" -> [kind |-> "string", text |-> Undefined]
      [] s = "[1]" -> [kind |-> "array", text |-> Undefined]
      [] s = "{}" -> [kind |-> "object", text |-> Undefined]
      [] s = "{\"text\":\"x\"}" -> [kind |-> "object", text |-> "x"]
      [] OTHER -> [kind |-> "throws", text |-> Undefined]

\* An image the webview hands over: a URL data:<mime><enc><data>, enc being
\* ";base64," or "," or with a parameter before the encoding.
Base64 == ";base64,"
DataUrl(mime, data) == [mime |-> mime, enc |-> Base64, data |-> data]
OtherUrl(mime, enc, data) == [mime |-> mime, enc |-> enc, data |-> data]
UrlString(u) == "data:" \o u.mime \o u.enc \o u.data

\* imageDataUrl.match(/^data:([^;]+);base64,(.+)$/)
UrlMatchAlways(u) == TRUE

UrlMatch(u) == u.mime # "" /\ u.enc = Base64 /\ u.data # ""

RECURSIVE JoinUrls(_)
JoinUrls(imgs) ==
    IF imgs = <<>> THEN ""
    ELSE "\"" \o UrlString(Head(imgs)) \o "\""
         \o (IF Len(imgs) > 1 THEN "," ELSE "") \o JoinUrls(Tail(imgs))

\* JSON.stringify({ text, images })
JSONStringify(t, imgs) ==
    "{\"text\":\"" \o t \o "\",\"images\":[" \o JoinUrls(imgs) \o "]}"

\* A feedback string, kept with what JSON.parse makes of it.
PlainFeedback(t) ==
    [str |-> t, json |-> JSONParse(t).kind, text |-> JSONParse(t).text, images |-> <<>>]
ObjectFeedback(t, imgs) ==
    [str |-> JSONStringify(t, imgs), json |-> "object", text |-> t, images |-> imgs]

\* _handleSubmit: the string the promise of showMessage resolves with (no
\* rules enabled).
handleSubmitResult(text, images) ==
    IF Len(images) > 0 THEN ObjectFeedback(text, images) ELSE PlainFeedback(text)

TextBlock(t) == [type |-> "text", text |-> t, data |-> "", mimeType |-> ""]
ImageBlock(d, m) == [type |-> "image", text |-> "", data |-> d, mimeType |-> m]

RECURSIVE ImageBlocks(_)
ImageBlocks(imgs) ==
    IF imgs = <<>> THEN <<>>
    ELSE (IF UrlMatch(Head(imgs))
             THEN <<ImageBlock(Head(imgs).data, Head(imgs).mime)>>
             ELSE <<>>) \o ImageBlocks(Tail(imgs))

\* if (parsed.text): undefined and the empty string are falsy.
Truthy(t) == t # Undefined /\ t # ""

MaybeEmpty(content) == content

\* if (content.length === 0) content.push({ type: 'text', text: '' })
NeverEmpty(content) == IF Len(content) = 0 THEN <<TextBlock("")>> ELSE content

\* parseResponse: a string JSON.parse throws on, and null (parsed.text
\* throws a TypeError), go to the catch block; a number, boolean, string or
\* array has neither text nor images.
parseResponse(feedback) ==
    NeverEmpty(
        IF feedback.json \in {"throws", "null"}
        THEN <<TextBlock(feedback.str)>>
        ELSE IF feedback.json = "object"
        THEN (IF Truthy(feedback.text) THEN <<TextBlock(feedback.text)>> ELSE <<>>)
             \o ImageBlocks(feedback.images)
        ELSE <<>>)

\* What the human can send from the panel (_handleSubmit builds the string).
HumanFeedbacks == {PlainFeedback("hello")}
\* Typed texts that are JSON texts as well.
JsonFeedbacks == {PlainFeedback("42")}

\* params of a /submit body: with arguments, without arguments, or absent.
ParamKinds == {"args", "noargs", "missing"}

VARIABLES
    now,              \* Date.now()
    running,          \* the extension host process is alive
    listening,        \* its http.Server is bound
    port,             \* MCPServer.port
    portFile,         \* ~/.panel-feedback/port.json: NoPort when absent
    heap,             \* the PendingRequest objects of the running process
    dispatch,         \* per object: where its processRequest stands
    pendingRequests,  \* MCPServer.pendingRequests: id -> object, 0 when absent
    stored,           \* globalState 'pendingRequests': the persisted array
    pendingResolve,   \* FeedbackPanelProvider._pendingResolve: object, 0 when undefined
    nextId,           \* ids generated so far
    jumps,            \* long passages of time so far
    call,             \* the stdio wrapper: each tools/call it is handling
    pollBudget,       \* bound: the poll round trips one tools/call may make
    hist,             \* history, per request id (read by no action)
    applied,          \* a function under study: its input and its output
    lastExit,         \* history: how the extension host ended, while none runs
    stdio,            \* the wrapper's stdin and stdout: lines read, lines written
    peer              \* a second extension host (another IDE window) and its MCPServer

svcVars == <<running, listening, port, portFile, heap, dispatch,
             pendingRequests, stored, pendingResolve, nextId>>
vars == <<now, svcVars, jumps, call, pollBudget, hist, applied, lastExit, stdio, peer>>

\* ------------------------------------------------------------ history
\* acked: the body /submit answered with and the status the entry had then;
\* settled: a processRequest of the id has finished; dropped: the entry left
\* the ledger while pending (cleared, or not restored at a start);
\* delivered: the terminal answer a poll returned; resolved: the string the
\* Collaborator resolved the dispatch with.
NoHistory ==
    [acked |-> None, settled |-> FALSE, dropped |-> FALSE, delivered |-> None,
     resolved |-> Undefined]

\* ------------------------------------------------------------ the ledger
PendingRequestUndated(id, params, createdAt) ==
    [id |-> id, params |-> params, status |-> "pending",
     result |-> None, error |-> Undefined, createdAt |-> 0]

PendingRequest(id, params, createdAt) ==
    [id |-> id, params |-> params, status |-> "pending",
     result |-> None, error |-> Undefined, createdAt |-> createdAt]

NoRequests == [i \in Ids |-> 0]

Has(id) == pendingRequests[id] # 0
Entry(id) == heap[pendingRequests[id]]
IsTerminal(status) == status \in {"completed", "error"}

\* Array.from(map.values()): a Map lists its values in insertion order, which is
\* the order of the ids here (ids are generated in increasing order and
\* restorePendingRequests inserts in the order of the persisted array).
RECURSIVE ValuesFrom(_, _, _)
ValuesFrom(i, map, objs) ==
    IF i > MaxIds THEN <<>>
    ELSE (IF map[i] # 0 THEN <<objs[map[i]]>> ELSE <<>>) \o ValuesFrom(i + 1, map, objs)

persistRequestsSkipped(map, objs) == stored

\* persistRequests: the value handed to globalState.update (context is set by
\* setContext before the server starts).
persistRequests(map, objs) == ValuesFrom(1, map, objs)

StoredIds == {stored[k].id : k \in 1..Len(stored)}

\* ------------------------------------------------------------- the heap
\* An object nothing refers to any more: the Map does not hold it and its
\* processRequest either has finished or waits on a promise whose resolver the
\* provider has dropped.  The garbage collector reclaims it.
Collected == [collected |-> TRUE]

Reachable(o, disp, map, res) ==
    \/ \E i \in Ids : map[i] = o
    \/ disp[o] = "opening"
    \/ disp[o] = "waiting" /\ res = o

RECURSIVE Trim(_, _)
Trim(seq, dead) ==
    IF seq # <<>> /\ seq[Len(seq)] = dead
    THEN Trim(SubSeq(seq, 1, Len(seq) - 1), dead)
    ELSE seq

\* The memory of the extension host after a handler ran: the objects, each
\* one's processRequest, the Map and the provider's resolver.
Mem(objs, disp, map, res) ==
    /\ heap' = Trim([o \in 1..Len(objs) |->
                        IF Reachable(o, disp, map, res) THEN objs[o] ELSE Collected],
                     Collected)
    /\ dispatch' = Trim([o \in 1..Len(objs) |->
                        IF Reachable(o, disp, map, res) THEN disp[o] ELSE "collected"],
                     "collected")
    /\ pendingRequests' = map
    /\ pendingResolve' = res

\* ------------------------------------------------- processRequest, settled
\* The continuation of processRequest after showMessage resolved with feedback.
Completed(req, feedback) ==
    [req EXCEPT !.status = "completed", !.result = [content |-> parseResponse(feedback)]]

FailedUnrecorded(req, message) == req

\* The catch block of processRequest.
Failed(req, message) ==
    [req EXCEPT !.status = "error", !.error = message]

\* ------------------------------------------------------------ handlePoll
Answer(status, data, error) == [status |-> status, data |-> data, error |-> error]

\* The JSON body handlePoll returns.
PollReply(id) ==
    IF ~Has(id) THEN Answer("error", None, NotFoundMsg)
    ELSE IF Entry(id).status = "completed" THEN Answer("completed", Entry(id).result, Undefined)
    ELSE IF Entry(id).status = "error" THEN Answer("error", None, Entry(id).error)
    ELSE Answer("pending", None, Undefined)

\* pendingRequests after handlePoll: a terminal entry is deleted.
PollLedgerKeeps(id) == pendingRequests

PollLedgerDrops(id) == [pendingRequests EXCEPT ![id] = 0]

PollLedger(id) ==
    IF Has(id) /\ IsTerminal(Entry(id).status)
    THEN [pendingRequests EXCEPT ![id] = 0]
    ELSE pendingRequests

handlePoll(id) ==
    /\ Mem(heap, dispatch, PollLedger(id), pendingResolve)
    /\ stored' = IF Has(id) /\ IsTerminal(Entry(id).status)
                 THEN persistRequests(PollLedger(id), heap)
                 ELSE stored
    /\ hist' = IF Has(id) /\ IsTerminal(Entry(id).status)
               THEN [hist EXCEPT ![id].delivered = PollReply(id)]
               ELSE hist

\* ---------------------------------------------------------- handleSubmit
\* handleSubmit with the synchronous part of processRequest and showMessage:
\* a missing params makes request.params.arguments throw, and the catch block
\* records the error before handleSubmit returns; with the webview present
\* showMessage installs its resolver at once; without it showMessage awaits
\* the focus command first.
\* The JSON body handleSubmit returns.
Accepted(id) == [status |-> "accepted", requestId |-> id]

handleSubmitFirstWins(id, params, viewReady) ==
    LET req == PendingRequest(id, params, now)
        o == Len(heap) + 1
        map == [pendingRequests EXCEPT ![id] = o]
        obj == IF params = "missing" THEN Failed(req, NoParamsMsg) ELSE req
        objs == Append(heap, obj)
    IN /\ Mem(objs,
              Append(dispatch, IF params = "missing" THEN "settled"
                               ELSE IF viewReady THEN "waiting" ELSE "opening"),
              map,
              IF params # "missing" /\ viewReady /\ pendingResolve = 0
              THEN o ELSE pendingResolve)
       /\ stored' = persistRequests(map, objs)
       /\ hist' = [hist EXCEPT ![id].acked = [reply |-> Accepted(id), status |-> obj.status],
                               ![id].settled = (params = "missing")]

handleSubmit(id, params, viewReady) ==
    LET req == PendingRequest(id, params, now)
        o == Len(heap) + 1
        map == [pendingRequests EXCEPT ![id] = o]
        obj == IF params = "missing" THEN Failed(req, NoParamsMsg) ELSE req
        objs == Append(heap, obj)
    IN /\ Mem(objs,
              Append(dispatch, IF params = "missing" THEN "settled"
                               ELSE IF viewReady THEN "waiting" ELSE "opening"),
              map,
              IF params # "missing" /\ viewReady THEN o ELSE pendingResolve)
       /\ stored' = persistRequests(map, objs)
       /\ hist' = [hist EXCEPT ![id].acked = [reply |-> Accepted(id), status |-> obj.status],
                               ![id].settled = (params = "missing")]

\* ---------------------------------------------- the HTTP endpoint, directly
\* POST /submit by any local client, with a newly generated request id.
Submit(params, viewReady) ==
    /\ running /\ listening
    /\ nextId < MaxIds
    /\ nextId' = nextId + 1
    /\ handleSubmit(nextId + 1, params, viewReady)
    /\ UNCHANGED <<peer, stdio, lastExit, applied, pollBudget, now, running, listening, port, portFile, jumps, call>>

\* POST /poll by any local client, for any id.
Poll(id) ==
    /\ running /\ listening
    /\ handlePoll(id)
    /\ UNCHANGED <<peer, stdio, lastExit, applied, pollBudget, now, running, listening, port, portFile, nextId, jumps, call>>

\* ------------------------------------------------------- the Collaborator
SettleRevives(o, settled, map, res) ==
    LET objs == [heap EXCEPT ![o] = settled]
        back == [map EXCEPT ![settled.id] = o]
    IN /\ Mem(objs, [dispatch EXCEPT ![o] = "settled"], back, res)
       /\ stored' = persistRequests(back, objs)

\* processRequest resumes after showMessage settled: the captured object is
\* changed and the Map, as it is by then, persisted.
Settle(o, settled, map, res) ==
    LET objs == [heap EXCEPT ![o] = settled]
    IN /\ Mem(objs, [dispatch EXCEPT ![o] = "settled"], map, res)
       /\ stored' = persistRequests(map, objs)

\* showMessage leaves its retry loop and returns the promise whose resolver
\* replaces the provider's _pendingResolve.
ShowMessageWaits(o) ==
    /\ running
    /\ o \in 1..Len(heap) /\ dispatch[o] = "opening"
    /\ Mem(heap, [dispatch EXCEPT ![o] = "waiting"], pendingRequests, o)
    /\ UNCHANGED <<peer, stdio, lastExit, applied, pollBudget, now, running, listening, port, portFile, stored, nextId,
                   jumps, call, hist>>

\* executeCommand('feedbackPanel.view.focus') rejects: showMessage rejects and
\* the catch block of processRequest records the error.
ShowMessageRejects(o) ==
    /\ running
    /\ o \in 1..Len(heap) /\ dispatch[o] = "opening"
    /\ Settle(o, Failed(heap[o], FocusFailedMsg), pendingRequests, pendingResolve)
    /\ hist' = [hist EXCEPT ![heap[o].id].settled = TRUE]
    /\ UNCHANGED <<peer, stdio, lastExit, applied, pollBudget, now, running, listening, port, portFile, nextId, jumps, call>>

HumanInputKeepsResolver(feedback) ==
    /\ running
    /\ pendingResolve # 0
    /\ Settle(pendingResolve, Completed(heap[pendingResolve], feedback),
              pendingRequests, pendingResolve)
    /\ hist' = [hist EXCEPT ![heap[pendingResolve].id].settled = TRUE,
                            ![heap[pendingResolve].id].resolved = feedback.str]
    /\ UNCHANGED <<peer, stdio, lastExit, applied, pollBudget, now, running, listening, port, portFile, nextId, jumps, call>>

\* _handleSubmit / _handleFixedAction: the human's input resolves the promise
\* of the resolver held, which is then cleared; without a resolver the input
\* is dropped.
HumanInput(feedback) ==
    /\ running
    /\ pendingResolve # 0
    /\ Settle(pendingResolve, Completed(heap[pendingResolve], feedback),
              pendingRequests, 0)
    /\ hist' = [hist EXCEPT ![heap[pendingResolve].id].settled = TRUE,
                            ![heap[pendingResolve].id].resolved = feedback.str]
    /\ UNCHANGED <<peer, stdio, lastExit, applied, pollBudget, now, running, listening, port, portFile, nextId, jumps, call>>

\* The ids whose entry is pending in the Map.
PendingIds == {i \in Ids : Has(i) /\ Entry(i).status = "pending"}

\* clearPendingRequests.
clearPendingRequests ==
    /\ Mem(heap, dispatch, NoRequests, pendingResolve)
    /\ stored' = persistRequests(NoRequests, heap)
    /\ hist' = [i \in Ids |-> IF i \in PendingIds
                              THEN [hist[i] EXCEPT !.dropped = TRUE] ELSE hist[i]]

Clear ==
    /\ running
    /\ clearPendingRequests
    /\ UNCHANGED <<peer, stdio, lastExit, applied, pollBudget, now, running, listening, port, portFile, nextId, jumps, call>>

\* _handleEndConversation: resolve the held promise with the sentinel, then
\* run the end-conversation callback (clearPendingRequests) in the same turn;
\* processRequest resumes only after that, on the object it captured.
EndConversation ==
    /\ running
    /\ IF pendingResolve # 0
       THEN /\ Settle(pendingResolve,
                      Completed(heap[pendingResolve], PlainFeedback(EndSentinel)),
                      NoRequests, 0)
            /\ hist' = [i \in Ids |->
                          IF i = heap[pendingResolve].id
                          THEN [hist[i] EXCEPT !.settled = TRUE, !.resolved = EndSentinel]
                          ELSE IF i \in PendingIds
                          THEN [hist[i] EXCEPT !.dropped = TRUE] ELSE hist[i]]
       ELSE clearPendingRequests
    /\ UNCHANGED <<peer, stdio, lastExit, applied, pollBudget, now, running, listening, port, portFile, nextId, jumps, call>>

\* ------------------------------------------------------------- lifecycle
RestorableAnyAge(req) == req.status = "pending"

RestorableAnyStatus(req) == (now - req.createdAt) < SEVEN_DAYS

\* The entries restorePendingRequests puts back.
Restorable(req) == req.status = "pending" /\ (now - req.createdAt) < SEVEN_DAYS

RestoredMap(objs) ==
    [i \in Ids |-> IF \E k \in 1..Len(objs) : objs[k].id = i
                   THEN CHOOSE k \in 1..Len(objs) : objs[k].id = i
                   ELSE 0]

writePortFileKeeps(p) == IF portFile # NoPort THEN portFile ELSE p

\* writePortFile: the port the file holds afterwards.
writePortFile(p) == p

deletePortFileFails == portFile

\* deletePortFile: the file is gone.
deletePortFile == NoPort

\* setContext (restorePendingRequests, processRequest of every restored
\* entry, in the order of the array) and start (tryListen, writePortFile) in
\* a new extension host.
Start(p, bindOk, viewReady) ==
    LET objs == SelectSeq(stored, Restorable)
    IN /\ ~running
       /\ running' = TRUE
       /\ Mem(objs,
              [k \in 1..Len(objs) |-> IF viewReady THEN "waiting" ELSE "opening"],
              RestoredMap(objs),
              IF viewReady THEN Len(objs) ELSE 0)
       /\ listening' = bindOk
       /\ port' = IF bindOk THEN p ELSE NoPort
       /\ portFile' = IF bindOk THEN writePortFile(p) ELSE portFile
       /\ hist' = [i \in Ids |->
                     IF \E k \in 1..Len(stored) :
                            /\ stored[k].id = i
                            /\ stored[k].status = "pending"
                            /\ ~Restorable(stored[k])
                     THEN [hist[i] EXCEPT !.dropped = TRUE] ELSE hist[i]]
       /\ lastExit' = "none"
       /\ peer' = IF bindOk THEN [peer EXCEPT !.boundLast = FALSE] ELSE peer
       /\ UNCHANGED <<stdio, applied, pollBudget, now, stored, nextId, jumps, call>>

\* The extension host ends: stop() on deactivation deletes the port file; a
\* killed host leaves it behind.  Nothing in memory survives.
Stop(graceful) ==
    /\ running
    /\ running' = FALSE
    /\ listening' = FALSE
    /\ port' = NoPort
    /\ portFile' = IF graceful THEN deletePortFile ELSE portFile
    /\ lastExit' = IF graceful THEN "graceful" ELSE "killed"
    /\ Mem(<<>>, <<>>, NoRequests, 0)
    /\ UNCHANGED <<peer, stdio, applied, pollBudget, now, stored, nextId, jumps, call, hist>>

\* ------------------------------------------------------------------ time
LongWaits == {SOFT_TIMEOUT, SEVEN_DAYS}

TimePasses(d) ==
    /\ jumps < MaxJumps
    /\ jumps' = jumps + 1
    /\ now' = now + d
    /\ UNCHANGED <<peer, stdio, lastExit, applied, pollBudget, svcVars, call, hist>>

\* ============================================================ the wrapper
NullId == 0
ServerError == -32000
ParseError == -32700

RpcResult(id, result) == [jsonrpc |-> "2.0", id |-> id, result |-> result, error |-> None]
RpcError(id, code, message) ==
    [jsonrpc |-> "2.0", id |-> id, result |-> None,
     error |-> [code |-> code, message |-> message]]

\* What sendRequest settles with besides a parsed body: ECONNREFUSED resolves
\* with { _connectionRefused: true }; a timeout, any other socket error or an
\* unparsable body rejects.
Refused == [connectionRefused |-> TRUE]
Rejected == [rejected |-> TRUE, message |-> "Request timeout"]

IsBody(r) == "status" \in DOMAIN r

\* ~/.panel-feedback/port.json as getTargetPort finds it: whether it exists,
\* whether readFileSync succeeds, what JSON.parse makes of its content and
\* the port property of the parsed object (0 when it has none).
PortFile(exists, readable, json, p) ==
    [exists |-> exists, readable |-> readable, json |-> json, port |-> p]
MissingFile == PortFile(FALSE, FALSE, "throws", 0)
UnreadableFile == PortFile(TRUE, FALSE, "throws", 0)
GarbageFile == PortFile(TRUE, TRUE, "throws", 0)
NullFile == PortFile(TRUE, TRUE, "null", 0)
EmptyObjectFile == PortFile(TRUE, TRUE, "object", 0)
\* writePortFile: JSON.stringify({ port })
PortJson(p) == PortFile(TRUE, TRUE, "object", p)

\* The try block of getTargetPort: what it returned (port 0: it fell
\* through) or that it threw.
TryReadPort(file) ==
    IF ~file.exists THEN [threw |-> FALSE, port |-> 0]
    ELSE IF ~file.readable \/ file.json \in {"throws", "null"}
    THEN [threw |-> TRUE, port |-> 0]
    ELSE [threw |-> FALSE, port |-> file.port]

KeepThrow(o) == o

\* catch (e) { // ignore }
IgnoreThrow(o) == [threw |-> FALSE, port |-> o.port]

targetPortOf(file) ==
    LET o == IgnoreThrow(TryReadPort(file))
    IN [threw |-> o.threw,
        port |-> IF ~o.threw /\ o.port = 0 THEN DEFAULT_PORT ELSE o.port]

\* getTargetPort, on the file as the service left it.
getTargetPort ==
    targetPortOf(IF portFile # NoPort THEN PortJson(portFile) ELSE MissingFile).port

\* err.message.includes(the "extension not started" text)
MentionsNotStarted(message) == message = NotStartedMsg

\* Math.round(elapsed / 60000)
WaitMinutes(elapsed) == (elapsed + 30000) \div 60000

SoftTimeoutResult(elapsed) ==
    [content |-> <<[type |-> "text", text |-> SoftTimeoutText,
                    minutes |-> WaitMinutes(elapsed)]>>]

\* params of a tools/call line that names panel_feedback.
CallParams == {"args", "noargs"}

\* polls and streak are history: the poll round trips sent, and the refused
\* ones since the last that was answered.
IdleCall ==
    [pc |-> "idle", mcpId |-> 0, requestId |-> 0, params |-> "args", targetPort |-> NoPort,
     startTime |-> 0, connectionRefusedCount |-> 0, polls |-> 0, streak |-> 0,
     result |-> None, response |-> None]

ConnectedAnew(c) == running /\ listening /\ port = getTargetPort

\* The service the wrapper's requests of call c reach, if any.
Connected(c) == running /\ listening /\ port = call[c].targetPort

Done(c, response) == [call[c] EXCEPT !.pc = "done", !.response = response]

\* A tools/call line that is never sent.
NoCall == [IdleCall EXCEPT !.pc = "none"]

\* A line of stdin: a JSON-RPC message with its id (NullId when it has none).
Line(id, method) == [id |-> id, method |-> method]
NoLines == [in |-> <<>>, out |-> <<>>]

\* The second host: the port its MCPServer listens on (NoPort while it does
\* not run) and, as history, whether its bind is the latest of the two.
NoPeer == [port |-> NoPort, boundLast |-> FALSE]

respondNever(c) == stdio' = stdio

\* respond(response), once handleToolCall of call c has returned or thrown.
respond(c) ==
    stdio' = IF call[c].pc # "done" /\ call'[c].pc = "done"
             THEN [stdio EXCEPT !.out = Append(@, call'[c].response)]
             ELSE stdio

\* A tools/call line for panel_feedback arrives: handleToolCall generates the
\* request id and reads the port file.
ToolCall(c, params) ==
    /\ call[c].pc = "idle"
    /\ nextId < MaxIds
    /\ nextId' = nextId + 1
    /\ call' = [call EXCEPT ![c] = [IdleCall EXCEPT !.pc = "submit",
                                                    !.mcpId = c,
                                                    !.requestId = nextId + 1,
                                                    !.params = params,
                                                    !.targetPort = getTargetPort]]
    /\ stdio' = [stdio EXCEPT !.in = Append(@, Line(c, "tools/call"))]
    /\ UNCHANGED <<peer, lastExit, applied, pollBudget, now, running, listening, port, portFile, heap, dispatch,
                   pendingRequests, stored, pendingResolve, jumps, hist>>

AfterSubmitRetries(c, submitResult) ==
    [call[c] EXCEPT !.pc = "poll", !.startTime = now, !.connectionRefusedCount = 0]

\* handleToolCall from the submit's answer on: a refusal or an error body ends
\* the call; otherwise pollForResult starts (startTime, counter 0).
AfterSubmit(c, submitResult) ==
    IF submitResult = Refused
    THEN Done(c, RpcError(c, ServerError, NotStartedMsg))
    ELSE [call[c] EXCEPT !.pc = "poll", !.startTime = now,
                         !.connectionRefusedCount = 0]

\* sendRequest('/submit') reaches the service.
FrontSubmit(c, viewReady) ==
    /\ call[c].pc = "submit"
    /\ Connected(c)
    /\ handleSubmit(call[c].requestId, call[c].params, viewReady)
    /\ call' = [call EXCEPT ![c] =
                   [AfterSubmit(c, Accepted(call[c].requestId))
                       EXCEPT !.result = Accepted(call[c].requestId)]]
    /\ respond(c)
    /\ UNCHANGED <<peer, lastExit, applied, pollBudget, now, running, listening, port, portFile, nextId, jumps>>

\* sendRequest('/submit') finds nobody listening on the target port.
FrontSubmitRefused(c) ==
    /\ call[c].pc = "submit"
    /\ ~Connected(c)
    /\ call' = [call EXCEPT ![c] = [AfterSubmit(c, Refused) EXCEPT !.result = Refused]]
    /\ respond(c)
    /\ UNCHANGED <<peer, lastExit, applied, pollBudget, now, svcVars, jumps, hist>>

\* sendRequest('/submit') rejects (something else holds the port and does not
\* answer): handleToolCall rejects and the line handler's catch answers.
FrontSubmitRejected(c) ==
    /\ call[c].pc = "submit"
    /\ ~Connected(c)
    /\ call' = [call EXCEPT ![c] =
                   [Done(c, RpcError(NullId, ParseError, Rejected.message))
                       EXCEPT !.result = Rejected]]
    /\ respond(c)
    /\ UNCHANGED <<peer, lastExit, applied, pollBudget, now, svcVars, jumps, hist>>

\* One sendRequest('/poll') of pollForResult reaches the service.
FrontPoll(c) ==
    /\ call[c].pc = "poll"
    /\ call[c].polls < pollBudget
    /\ Connected(c)
    /\ handlePoll(call[c].requestId)
    /\ call' = [call EXCEPT ![c].pc = "check",
                            ![c].polls = @ + 1,
                            ![c].streak = 0,
                            ![c].result = PollReply(call[c].requestId)]
    /\ respond(c)
    /\ UNCHANGED <<peer, lastExit, applied, pollBudget, now, running, listening, port, portFile, nextId, jumps>>

FrontPollRefused(c) ==
    /\ call[c].pc = "poll"
    /\ call[c].polls < pollBudget
    /\ ~Connected(c)
    /\ call' = [call EXCEPT ![c].pc = "check",
                            ![c].polls = @ + 1,
                            ![c].streak = @ + 1,
                            ![c].result = Refused]
    /\ respond(c)
    /\ UNCHANGED <<peer, lastExit, applied, pollBudget, now, svcVars, jumps, hist>>

FrontPollRejected(c) ==
    /\ call[c].pc = "poll"
    /\ call[c].polls < pollBudget
    /\ ~Connected(c)
    /\ call' = [call EXCEPT ![c].pc = "check",
                            ![c].polls = @ + 1,
                            ![c].result = Rejected]
    /\ respond(c)
    /\ UNCHANGED <<peer, lastExit, applied, pollBudget, now, svcVars, jumps, hist>>

SoftCheckAsError(cl) ==
    IF now - cl.startTime > SOFT_TIMEOUT
    THEN [cl EXCEPT !.pc = "done",
                    !.response = RpcError(cl.mcpId, ServerError, HardTimeoutMsg)]
    ELSE [cl EXCEPT !.pc = "sleep"]

\* The soft-timeout check that ends an iteration of pollForResult.
SoftCheck(cl) ==
    IF now - cl.startTime > SOFT_TIMEOUT
    THEN [cl EXCEPT !.pc = "done",
                    !.response = RpcResult(cl.mcpId, SoftTimeoutResult(now - cl.startTime))]
    ELSE [cl EXCEPT !.pc = "sleep"]

\* What the catch block of pollForResult does with a thrown error: rethrow it
\* when its message has the "extension not started" text (handleToolCall then
\* answers with the error), else log it and go on.
Caught(cl, message) ==
    IF MentionsNotStarted(message)
    THEN [cl EXCEPT !.pc = "done", !.response = RpcError(cl.mcpId, ServerError, message)]
    ELSE SoftCheck(cl)

AfterPollOffByOne(cl) ==
    LET result == cl.result
        count == cl.connectionRefusedCount + 1
    IN IF result = Rejected THEN Caught(cl, Rejected.message)
       ELSE IF result = Refused
       THEN (IF count >= RefusalBudget
             THEN Caught([cl EXCEPT !.connectionRefusedCount = count], NotStartedMsg)
             ELSE SoftCheck([cl EXCEPT !.connectionRefusedCount = count]))
       ELSE IF result.status = "completed"
       THEN [cl EXCEPT !.connectionRefusedCount = 0, !.pc = "done",
                       !.response = RpcResult(cl.mcpId, result.data)]
       ELSE IF result.status = "error"
       THEN Caught([cl EXCEPT !.connectionRefusedCount = 0],
                   IF result.error # Undefined THEN result.error ELSE UnknownErrorMsg)
       ELSE SoftCheck([cl EXCEPT !.connectionRefusedCount = 0])

\* The body of the poll loop from the result of sendRequest to the sleep.
AfterPoll(cl) ==
    LET result == cl.result
        count == cl.connectionRefusedCount + 1
    IN IF result = Rejected THEN Caught(cl, Rejected.message)
       ELSE IF result = Refused
       THEN (IF count > RefusalBudget
             THEN Caught([cl EXCEPT !.connectionRefusedCount = count], NotStartedMsg)
             ELSE SoftCheck([cl EXCEPT !.connectionRefusedCount = count]))
       ELSE IF result.status = "completed"
       THEN [cl EXCEPT !.connectionRefusedCount = 0, !.pc = "done",
                       !.response = RpcResult(cl.mcpId, result.data)]
       ELSE IF result.status = "error"
       THEN Caught([cl EXCEPT !.connectionRefusedCount = 0],
                   IF result.error # Undefined THEN result.error ELSE UnknownErrorMsg)
       ELSE SoftCheck([cl EXCEPT !.connectionRefusedCount = 0])

FrontCheck(c) ==
    /\ call[c].pc = "check"
    /\ call' = [call EXCEPT ![c] = AfterPoll(call[c])]
    /\ respond(c)
    /\ UNCHANGED <<peer, lastExit, applied, pollBudget, now, svcVars, jumps, hist>>

\* sleep(POLL_INTERVAL) is over and the loop condition is evaluated.
LoopHead(cl, time) ==
    IF time - cl.startTime < MAX_POLL_TIME
    THEN [cl EXCEPT !.pc = "poll"]
    ELSE [cl EXCEPT !.pc = "done",
                    !.response = RpcError(cl.mcpId, ServerError, HardTimeoutMsg)]

FrontWake(c) ==
    /\ call[c].pc = "sleep"
    /\ now' = now + POLL_INTERVAL
    /\ call' = [call EXCEPT ![c] = LoopHead(call[c], now')]
    /\ respond(c)
    /\ UNCHANGED <<peer, lastExit, applied, pollBudget, svcVars, jumps, hist>>

\* ------------------------------------------------------- specification
Init ==
    /\ now = 0
    /\ running = FALSE
    /\ listening = FALSE
    /\ port = NoPort
    /\ portFile = NoPort
    /\ heap = <<>>
    /\ dispatch = <<>>
    /\ pendingRequests = NoRequests
    /\ stored = <<>>
    /\ pendingResolve = 0
    /\ nextId = 0
    /\ jumps = 0
    /\ call = [c \in Calls |-> IF c = 1 THEN IdleCall ELSE NoCall]
    /\ pollBudget = MaxPolls
    /\ hist = [i \in Ids |-> NoHistory]
    /\ lastExit = "none"
    /\ stdio = NoLines
    /\ peer = NoPeer
    /\ applied = None

\* The same, with room for the polls it takes to use up the refusal budget.
InitRefusal ==
    /\ now = 0
    /\ running = FALSE
    /\ listening = FALSE
    /\ port = NoPort
    /\ portFile = NoPort
    /\ heap = <<>>
    /\ dispatch = <<>>
    /\ pendingRequests = NoRequests
    /\ stored = <<>>
    /\ pendingResolve = 0
    /\ nextId = 0
    /\ jumps = 0
    /\ call = [c \in Calls |-> IF c = 1 THEN IdleCall ELSE NoCall]
    /\ pollBudget = MaxRefusalPolls
    /\ hist = [i \in Ids |-> NoHistory]
    /\ lastExit = "none"
    /\ stdio = NoLines
    /\ peer = NoPeer
    /\ applied = None

Collaborator ==
    \/ \E o \in 1..MaxIds : ShowMessageWaits(o)
    \/ \E o \in 1..MaxIds : ShowMessageRejects(o)
    \/ \E feedback \in HumanFeedbacks : HumanInput(feedback)
    \/ Clear
    \/ EndConversation

Lifecycle ==
    \/ \E p \in EphemeralPorts, viewReady \in BOOLEAN : Start(p, TRUE, viewReady)
    \/ \E graceful \in BOOLEAN : Stop(graceful)
    \/ \E d \in LongWaits : TimePasses(d)

Next ==
    \/ \E params \in ParamKinds, viewReady \in BOOLEAN : Submit(params, viewReady)
    \/ \E id \in Ids : Poll(id)
    \/ Collaborator
    \/ Lifecycle

Spec == Init /\ [][Next]_vars

Front ==
    \/ \E c \in Calls, params \in CallParams : ToolCall(c, params)
    \/ \E c \in Calls, viewReady \in BOOLEAN : FrontSubmit(c, viewReady)
    \/ \E c \in Calls : FrontSubmitRefused(c)
    \/ \E c \in Calls : FrontSubmitRejected(c)
    \/ \E c \in Calls : FrontPoll(c)
    \/ \E c \in Calls : FrontPollRefused(c)
    \/ \E c \in Calls : FrontPollRejected(c)
    \/ \E c \in Calls : FrontCheck(c)
    \/ \E c \in Calls : FrontWake(c)

NextFront ==
    \/ Front
    \/ Collaborator
    \/ \E feedback \in JsonFeedbacks : HumanInput(feedback)
    \/ Lifecycle

\* The wrapper with the service, the Collaborator and the host's lifecycle.
SpecFront == Init /\ [][NextFront]_vars

NextRefusal ==
    \/ Front
    \/ \E p \in EphemeralPorts, bindOk \in BOOLEAN, viewReady \in BOOLEAN :
           Start(p, bindOk, viewReady)
    \/ \E graceful \in BOOLEAN : Stop(graceful)

\* The wrapper with a service that comes and goes, for as many polls as the
\* refusal budget takes.
SpecRefusal == InitRefusal /\ [][NextRefusal]_vars

\* ------------------------------------------------ the line handler
\* The methods of the lines the wrapper is sent, tools/call of panel_feedback
\* aside; "ping" stands for any method the handler does not know, and
\* "tools/call other_tool" for a tools/call whose params name another tool.
Methods ==
    {"initialize", "tools/list", "notifications/initialized", "ping",
     "tools/call other_tool"}

InitializeResult == [protocolVersion |-> "2024-11-05", serverInfo |-> "panel-feedback"]
ToolsListResult == [tools |-> <<"panel_feedback">>]
EmptyResult == [empty |-> TRUE]

OtherLines == {k \in 1..Len(stdio.in) : stdio.in[k].method # "tools/call"}

HandleLineRejectsUnknown(method) ==
    /\ Cardinality(OtherLines) < MaxLines
    /\ LET id == IF method = "notifications/initialized" THEN NullId
                 ELSE MaxCalls + Cardinality(OtherLines) + 1
           response ==
               CASE method = "initialize" -> RpcResult(id, InitializeResult)
                 [] method = "tools/list" -> RpcResult(id, ToolsListResult)
                 [] OTHER -> RpcError(id, ServerError, "Method not found")
       IN stdio' = [in |-> Append(stdio.in, Line(id, method)),
                    out |-> IF method = "notifications/initialized" THEN stdio.out
                            ELSE Append(stdio.out, response)]
    /\ UNCHANGED <<peer, lastExit, applied, pollBudget, now, svcVars, jumps, call, hist>>

\* rl.on('line') for a line that is not a tools/call of panel_feedback: the
\* response is written at once, a notifications/initialized gets none.
HandleLine(method) ==
    /\ Cardinality(OtherLines) < MaxLines
    /\ LET id == IF method = "notifications/initialized" THEN NullId
                 ELSE MaxCalls + Cardinality(OtherLines) + 1
           response ==
               RpcResult(id, CASE method = "initialize" -> InitializeResult
                               [] method = "tools/list" -> ToolsListResult
                               [] OTHER -> EmptyResult)
       IN stdio' = [in |-> Append(stdio.in, Line(id, method)),
                    out |-> IF method = "notifications/initialized" THEN stdio.out
                            ELSE Append(stdio.out, response)]
    /\ UNCHANGED <<peer, lastExit, applied, pollBudget, now, svcVars, jumps, call, hist>>

InitLines ==
    /\ now = 0
    /\ running = FALSE
    /\ listening = FALSE
    /\ port = NoPort
    /\ portFile = NoPort
    /\ heap = <<>>
    /\ dispatch = <<>>
    /\ pendingRequests = NoRequests
    /\ stored = <<>>
    /\ pendingResolve = 0
    /\ nextId = 0
    /\ jumps = 0
    /\ call = [c \in Calls |-> IdleCall]
    /\ pollBudget = MaxLinePolls
    /\ hist = [i \in Ids |-> NoHistory]
    /\ applied = None
    /\ lastExit = "none"
    /\ stdio = NoLines
    /\ peer = NoPeer

NextLines ==
    \/ \E method \in Methods : HandleLine(method)
    \/ \E c \in Calls, params \in CallParams : ToolCall(c, params)
    \/ \E c \in Calls : FrontSubmit(c, TRUE)
    \/ \E c \in Calls : FrontSubmitRefused(c)
    \/ \E c \in Calls : FrontSubmitRejected(c)
    \/ \E c \in Calls : FrontPoll(c)
    \/ \E c \in Calls : FrontCheck(c)
    \/ \E c \in Calls : FrontWake(c)
    \/ \E p \in EphemeralPorts : Start(p, TRUE, TRUE)
    \/ \E feedback \in HumanFeedbacks : HumanInput(feedback)

\* The wrapper reading several lines, tools/call lines in flight together.
SpecLines == InitLines /\ [][NextLines]_vars

\* ------------------------------------------------ calls in sequence
\* The client sends its next tools/call once the previous one has been
\* answered, as the soft-timeout text asks it to.
Reinvoke(c, params) ==
    /\ \A b \in Calls : b < c => call[b].pc = "done"
    /\ ToolCall(c, params)

InitReinvoke ==
    /\ now = 0
    /\ running = FALSE
    /\ listening = FALSE
    /\ port = NoPort
    /\ portFile = NoPort
    /\ heap = <<>>
    /\ dispatch = <<>>
    /\ pendingRequests = NoRequests
    /\ stored = <<>>
    /\ pendingResolve = 0
    /\ nextId = 0
    /\ jumps = 0
    /\ call = [c \in Calls |-> IdleCall]
    /\ pollBudget = MaxLinePolls
    /\ hist = [i \in Ids |-> NoHistory]
    /\ applied = None
    /\ lastExit = "none"
    /\ stdio = NoLines
    /\ peer = NoPeer

NextReinvoke ==
    \/ \E c \in Calls : Reinvoke(c, "args")
    \/ \E c \in Calls : FrontSubmit(c, TRUE)
    \/ \E c \in Calls : FrontSubmitRefused(c)
    \/ \E c \in Calls : FrontPoll(c)
    \/ \E c \in Calls : FrontCheck(c)
    \/ \E c \in Calls : FrontWake(c)
    \/ \E feedback \in HumanFeedbacks : HumanInput(feedback)
    \/ EndConversation
    \/ \E p \in {49152} : Start(p, TRUE, TRUE)
    \/ \E graceful \in BOOLEAN : Stop(graceful)
    \/ \E d \in LongWaits : TimePasses(d)

\* The wrapper handling one tools/call after another, with the service (given
\* the same port at every start), the human and the host's lifecycle; a call
\* that is polling sends its next poll when the service is up.
SpecReinvoke == InitReinvoke /\ [][NextReinvoke]_vars

NextSession ==
    \/ \E method \in Methods : HandleLine(method)
    \/ \E c \in Calls : Reinvoke(c, "args")
    \/ \E c \in Calls : FrontSubmit(c, TRUE)
    \/ \E c \in Calls : FrontSubmitRefused(c)
    \/ \E c \in Calls : FrontPoll(c)
    \/ \E c \in Calls : FrontCheck(c)
    \/ \E c \in Calls : FrontWake(c)
    \/ \E feedback \in HumanFeedbacks : HumanInput(feedback)
    \/ \E p \in {49152} : Start(p, TRUE, TRUE)

\* A client session: lines of every method between tools/call lines that
\* follow one another.
SpecSession == InitReinvoke /\ [][NextSession]_vars

\* ------------------------------------------------ a call to its end
\* What the wrapper does next for call c: its timers fire and each HTTP round
\* trip ends, with an answer, a refusal, a failure or its 5-second timeout.
CallStep(c) ==
    \/ \E viewReady \in BOOLEAN : FrontSubmit(c, viewReady)
    \/ FrontSubmitRefused(c)
    \/ FrontSubmitRejected(c)
    \/ FrontPoll(c)
    \/ FrontPollRefused(c)
    \/ FrontPollRejected(c)
    \/ FrontCheck(c)
    \/ FrontWake(c)

InitLive ==
    /\ now = 0
    /\ running = FALSE
    /\ listening = FALSE
    /\ port = NoPort
    /\ portFile = NoPort
    /\ heap = <<>>
    /\ dispatch = <<>>
    /\ pendingRequests = NoRequests
    /\ stored = <<>>
    /\ pendingResolve = 0
    /\ nextId = 0
    /\ jumps = 0
    /\ call = [c \in Calls |-> IF c = 1 THEN IdleCall ELSE NoCall]
    /\ pollBudget = MaxLivePolls
    /\ hist = [i \in Ids |-> NoHistory]
    /\ applied = None
    /\ lastExit = "none"
    /\ stdio = NoLines
    /\ peer = NoPeer

NextLive ==
    \/ \E c \in Calls : ToolCall(c, "args")
    \/ \E c \in Calls : CallStep(c)
    \/ \E feedback \in HumanFeedbacks : HumanInput(feedback)
    \/ \E p \in {49152} : Start(p, TRUE, TRUE)
    \/ Stop(TRUE)

\* One tools/call from its line to its response, the only clock being the
\* wrapper's sleep, with a service that comes and goes and a human who may
\* never answer; weak fairness of the call's next step is the assumption that
\* timers fire and round trips end.
SpecLive == InitLive /\ [][NextLive]_vars /\ \A c \in Calls : WF_vars(CallStep(c))

\* ------------------------------------------- getTargetPort on its own
\* The state before the extension host has ever run.
Idle ==
    /\ now = 0
    /\ running = FALSE
    /\ listening = FALSE
    /\ port = NoPort
    /\ portFile = NoPort
    /\ heap = <<>>
    /\ dispatch = <<>>
    /\ pendingRequests = NoRequests
    /\ stored = <<>>
    /\ pendingResolve = 0
    /\ nextId = 0
    /\ jumps = 0
    /\ call = [c \in Calls |-> IF c = 1 THEN IdleCall ELSE NoCall]
    /\ pollBudget = MaxPolls
    /\ hist = [i \in Ids |-> NoHistory]
    /\ lastExit = "none"
    /\ stdio = NoLines
    /\ peer = NoPeer

PortValues == 49152..(49152 + MaxPortSpan)
PortFiles ==
    {MissingFile, UnreadableFile, GarbageFile, NullFile, EmptyObjectFile}
        \cup {PortJson(p) : p \in PortValues}

InitPort ==
    /\ Idle
    /\ applied \in {[stage |-> "file", file |-> f, out |-> None] : f \in PortFiles}

\* handleToolCall: const targetPort = getTargetPort().
ReadPort ==
    /\ applied.stage = "file"
    /\ applied' = [applied EXCEPT !.stage = "read", !.out = targetPortOf(applied.file)]
    /\ UNCHANGED <<peer, stdio, lastExit, pollBudget, now, svcVars, jumps, call, hist>>

NextPort == ReadPort

SpecPort == InitPort /\ [][NextPort]_vars

\* ------------------------------------------------ two IDE windows
\* start() in the second host: listen(0) gets a port nobody listens on and
\* writePortFile records it in the file both hosts share.
PeerStart(p) ==
    /\ peer.port = NoPort
    /\ p # port
    /\ peer' = [port |-> p, boundLast |-> TRUE]
    /\ portFile' = writePortFile(p)
    /\ UNCHANGED <<stdio, lastExit, applied, pollBudget, now, running, listening, port,
                   heap, dispatch, pendingRequests, stored, pendingResolve, nextId,
                   jumps, call, hist>>

\* The second host ends: stop() deletes the port file, a killed host leaves it.
PeerStop(graceful) ==
    /\ peer.port # NoPort
    /\ peer' = [peer EXCEPT !.port = NoPort]
    /\ portFile' = IF graceful THEN deletePortFile ELSE portFile
    /\ UNCHANGED <<stdio, lastExit, applied, pollBudget, now, running, listening, port,
                   heap, dispatch, pendingRequests, stored, pendingResolve, nextId,
                   jumps, call, hist>>

InitWindows == Idle /\ applied = None

NextWindows ==
    \/ \E p \in PortValues \ {peer.port} : Start(p, TRUE, TRUE)
    \/ \E graceful \in BOOLEAN : Stop(graceful)
    \/ \E p \in PortValues : PeerStart(p)
    \/ \E graceful \in BOOLEAN : PeerStop(graceful)

\* Two extension hosts of one user, starting and stopping in any order.
SpecWindows == InitWindows /\ [][NextWindows]_vars

\* ----------------------------------------- hosts that are never killed
NextGraceful ==
    \/ Front
    \/ \E p \in EphemeralPorts, bindOk \in BOOLEAN, viewReady \in BOOLEAN :
           Start(p, bindOk, viewReady)
    \/ Stop(TRUE)

\* One extension host at a time, each ended by deactivation (stop()).
SpecGraceful == InitRefusal /\ [][NextGraceful]_vars

\* ------------------------------------------- the /submit endpoint
\* What JSON.parse makes of the body of a POST /submit: an object with a
\* requestId and params of one of ParamKinds, or null.
ObjectBody(id, params) == [kind |-> "object", requestId |-> id, params |-> params]
NullBody == [kind |-> "null", requestId |-> 0, params |-> "missing"]
NoBody == [kind |-> "none", requestId |-> 0, params |-> "missing"]

\* The body of the 400 answer of the request handler's catch block.
ParseErrorBody == [error |-> "Parse error"]

PostSubmitNullAccepted ==
    /\ running /\ listening
    /\ applied' = [body |-> NullBody, out |-> Accepted(0)]
    /\ UNCHANGED <<peer, stdio, lastExit, pollBudget, now, svcVars, jumps, call, hist>>

\* POST /submit with the body null: destructuring it in handleSubmit throws,
\* the handler's catch block answers 400.
PostSubmitNull ==
    /\ running /\ listening
    /\ applied' = [body |-> NullBody, out |-> ParseErrorBody]
    /\ UNCHANGED <<peer, stdio, lastExit, pollBudget, now, svcVars, jumps, call, hist>>

\* POST /submit with an object: the handler answers 200 with what
\* handleSubmit returned.
PostSubmit(params, viewReady) ==
    /\ running /\ listening
    /\ nextId < MaxIds
    /\ nextId' = nextId + 1
    /\ handleSubmit(nextId + 1, params, viewReady)
    /\ applied' = [body |-> ObjectBody(nextId + 1, params), out |-> Accepted(nextId + 1)]
    /\ UNCHANGED <<peer, stdio, lastExit, pollBudget, now, running, listening, port,
                   portFile, jumps, call>>

\* POST /poll, as the first request for the id or a later one.
PostPoll(id) ==
    /\ running /\ listening
    /\ handlePoll(id)
    /\ applied' = [body |-> [kind |-> "poll", requestId |-> id, params |-> "missing"],
                   out |-> PollReply(id)]
    /\ UNCHANGED <<peer, stdio, lastExit, pollBudget, now, running, listening, port,
                   portFile, nextId, jumps, call>>

InitEndpoint == Idle /\ applied = [body |-> NoBody, out |-> None]

NextEndpoint ==
    \/ \E params \in ParamKinds, viewReady \in BOOLEAN : PostSubmit(params, viewReady)
    \/ PostSubmitNull
    \/ \E id \in Ids : PostPoll(id)
    \/ \E o \in 1..MaxIds : ShowMessageWaits(o)
    \/ \E o \in 1..MaxIds : ShowMessageRejects(o)
    \/ \E feedback \in HumanFeedbacks : HumanInput(feedback)
    \/ \E p \in {49152}, viewReady \in BOOLEAN : Start(p, TRUE, viewReady)
    \/ Stop(TRUE)

\* The HTTP endpoint with the answers it gives, and the Collaborator.
SpecEndpoint == InitEndpoint /\ [][NextEndpoint]_vars

\* ------------------------------------- the ledger under re-used ids
\* POST /submit by a local client with a request id the ledger holds:
\* handleSubmit takes the id from the body and Map.set replaces the entry.
Resubmit(id, params, viewReady) ==
    /\ running /\ listening
    /\ Has(id)
    /\ Len(heap) < MaxObjects
    /\ handleSubmit(id, params, viewReady)
    /\ UNCHANGED <<peer, stdio, lastExit, applied, pollBudget, now, running, listening,
                   port, portFile, nextId, jumps, call>>

\* Every request object of a run: one per Submit, and the replacements.
Objects == 1..(MaxIds + MaxObjects)

NextLedger ==
    \/ \E viewReady \in BOOLEAN : Submit("args", viewReady)
    \/ \E id \in Ids, viewReady \in BOOLEAN : Resubmit(id, "args", viewReady)
    \/ \E id \in Ids : Poll(id)
    \/ \E o \in Objects : ShowMessageWaits(o)
    \/ \E o \in Objects : ShowMessageRejects(o)
    \/ \E feedback \in HumanFeedbacks : HumanInput(feedback)
    \/ Clear
    \/ EndConversation
    \/ \E p \in {49152}, viewReady \in BOOLEAN : Start(p, TRUE, viewReady)

\* One run of the service and the Collaborator, with clients that choose
\* their ids.
SpecLedger == Init /\ [][NextLedger]_vars

\* ------------------------------------------- parseResponse on its own
Urls ==
    {DataUrl("image/png", "AAAA"), DataUrl("image/jpeg", "BBBB"),
     OtherUrl("text/plain", ",", "hi"),
     OtherUrl("image/png", ";charset=utf-8;base64,", "CCCC")}
ImageLists == UNION {[1..k -> Urls] : k \in 1..MaxImages}
PanelTexts == {"", "ok"}

\* What _handleSubmit can be called with: a typed text alone, or a text with
\* pasted images.
PanelInputs ==
    {[text |-> t, images |-> <<>>] : t \in TypedTexts}
        \cup {[text |-> t, images |-> imgs] : t \in PanelTexts, imgs \in ImageLists}

InitFormat ==
    /\ Idle
    /\ applied \in {[stage |-> "typed", input |-> i, feedback |-> None, content |-> <<>>] :
                        i \in PanelInputs}

\* The human submits: _handleSubmit builds the string showMessage resolves with.
PanelSubmit ==
    /\ applied.stage = "typed"
    /\ applied' = [applied EXCEPT
                     !.stage = "resolved",
                     !.feedback = handleSubmitResult(applied.input.text, applied.input.images)]
    /\ UNCHANGED <<peer, stdio, lastExit, pollBudget, now, svcVars, jumps, call, hist>>

\* processRequest: const content = this.parseResponse(feedback).
Format ==
    /\ applied.stage = "resolved"
    /\ applied' = [applied EXCEPT !.stage = "formatted",
                                  !.content = parseResponse(applied.feedback)]
    /\ UNCHANGED <<peer, stdio, lastExit, pollBudget, now, svcVars, jumps, call, hist>>

NextFormat == PanelSubmit \/ Format

SpecFormat == InitFormat /\ [][NextFormat]_vars

\* ================================================================ claims
Submitted(id) == hist[id].acked # None
TerminalAnswer(req) ==
    IF req.status = "completed"
    THEN Answer("completed", req.result, Undefined)
    ELSE Answer("error", None, req.error)
NotFound == Answer("error", None, NotFoundMsg)

\* ---- C1
C1_State ==
    \A id \in Ids :
        /\ (Has(id) /\ IsTerminal(Entry(id).status)) =>
               /\ hist[id].delivered = None
               /\ PollReply(id) = TerminalAnswer(Entry(id))
        /\ hist[id].delivered # None =>
               /\ ~Has(id)
               /\ id \notin StoredIds
               /\ PollReply(id) = NotFound

C1_Step ==
    \A id \in Ids :
        (hist'[id].delivered # hist[id].delivered) =>
            /\ hist[id].delivered = None
            /\ Has(id) /\ IsTerminal(Entry(id).status)
            /\ hist'[id].delivered = TerminalAnswer(Entry(id))
            /\ ~Has(id)'
            /\ id \notin StoredIds'

\* C1: single consumption.  A poll for an id whose ledger entry is terminal
\* returns the stored payload (completed with the data, or error with the
\* message) and deletes the entry from the ledger and from the persisted
\* snapshot; from then on every poll for that id gets the not-found answer.
C1_SingleConsumption == []C1_State /\ [][C1_Step]_vars

\* A terminal answer was delivered and the service is there to be polled again.
C1_Witness ==
    \E id \in Ids :
        /\ hist[id].delivered # None
        /\ hist[id].delivered.status = "completed"
        /\ running /\ listening

\* ---- C2
\* C2 as stated: every submitted id whose dispatch has not settled is answered
\* pending by a poll, whatever happened in between.
C2_PendingUntilResolved ==
    \A id \in Ids :
        (Submitted(id) /\ ~hist[id].settled /\ running) =>
            PollReply(id).status = "pending"

\* C2 amended: every submitted id whose dispatch has not settled and whose
\* entry was neither cleared (clearPendingRequests, end of conversation) nor
\* left out by a start that found it 7 days old is answered pending by a poll,
\* whatever submits, polls and restarts happened in between.
C2_PendingUnlessDropped ==
    \A id \in Ids :
        (Submitted(id) /\ ~hist[id].settled /\ ~hist[id].dropped /\ running) =>
            /\ Has(id)
            /\ PollReply(id) = Answer("pending", None, Undefined)

\* An unresolved entry that was restored by a later start, after another id
\* was answered and consumed.
C2_Witness ==
    \E id \in Ids :
        /\ Submitted(id) /\ ~hist[id].settled /\ ~hist[id].dropped
        /\ running /\ listening
        /\ Has(id) /\ Entry(id).createdAt < now
        /\ \E other \in Ids \ {id} : hist[other].delivered # None

C3_Step ==
    \A id \in Ids :
        (~Submitted(id) /\ Submitted(id)' /\ Entry(id)'.params # "missing") =>
            /\ ~Has(id)
            /\ hist'[id].acked = [reply |-> Accepted(id), status |-> "pending"]
            /\ Entry(id)'.status = "pending"
            /\ Entry(id)'.id = id
            /\ \E k \in 1..Len(stored') : stored'[k] = Entry(id)'
            /\ dispatch'[pendingRequests'[id]] \in {"opening", "waiting"}
            /\ ~hist'[id].settled

C4_State ==
    /\ \A id \in Ids : Has(id) => Entry(id).id = id
    /\ \A i, j \in Ids : (Has(i) /\ Has(j) /\ i # j) => pendingRequests[i] # pendingRequests[j]
    /\ \A k, l \in 1..Len(stored) : stored[k].id = stored[l].id => k = l

C4_Step ==
    \A id \in Ids :
        (Has(id) /\ Has(id)') =>
            /\ IsTerminal(Entry(id).status) => Entry(id)' = Entry(id)
            /\ (Entry(id).status = "pending" /\ IsTerminal(Entry(id)'.status)) =>
                   /\ dispatch[pendingRequests[id]] \in {"opening", "waiting"}
                   /\ ~hist[id].settled /\ hist'[id].settled

\* C4: ids are unique in the ledger and in the snapshot, and status is
\* monotonic: an entry that is completed or error is never changed again
\* (never back to pending, never a second terminal value), and an entry
\* becomes terminal only by its own processRequest finishing.
C4_UniqueMonotonic == []C4_State /\ [][C4_Step]_vars

\* A completed entry, created before the clock last moved, sits in the ledger
\* after every id has been submitted.
C4_Witness ==
    \E id \in Ids :
        /\ Has(id) /\ Entry(id).status = "completed"
        /\ Entry(id).createdAt < now
        /\ nextId = MaxIds

\* ---- C5
Stepped(c) == call'[c] # call[c]
Pending == Answer("pending", None, Undefined)

\* C5: a poll response with status=error (a recorded Collaborator failure, or
\* not-found) makes the wrapper leave the poll loop and end the tools/call
\* with a JSON-RPC error whose message is the carried error message.
C5_ErrorStatusEndsCall ==
    [][\A c \in Calls :
         (/\ call[c].pc = "check"
          /\ IsBody(call[c].result)
          /\ call[c].result.status = "error"
          /\ Stepped(c)) =>
             /\ call'[c].pc = "done"
             /\ call'[c].response = RpcError(c, ServerError, call[c].result.error)]_vars

\* ---- C6
SoftResponse(c, elapsed) == RpcResult(c, SoftTimeoutResult(elapsed))

C6_Step ==
    \A c \in Calls :
        (/\ call[c].pc = "check"
         /\ call[c].result = Pending
         /\ now - call[c].startTime > SOFT_TIMEOUT
         /\ Stepped(c)) =>
            /\ call'[c].pc = "done"
            /\ call'[c].response = SoftResponse(c, now - call[c].startTime)
            /\ call'[c].response.error = None
            /\ Len(call'[c].response.result.content) = 1
            /\ call'[c].response.result.content[1].type = "text"
            /\ call'[c].response.result.content[1].text = SoftTimeoutText
            /\ UNCHANGED svcVars
            /\ (Has(call[c].requestId) /\ Entry(call[c].requestId).status = "pending") =>
                   (Has(call[c].requestId)' /\ Entry(call[c].requestId)'.status = "pending")

\* C6: soft timeout.  A tools/call whose poll was answered pending and that
\* finds more than SOFT_TIMEOUT elapsed returns a JSON-RPC result (no error)
\* holding one text block that advises calling again; nothing is sent to the
\* service and the pending ledger entry stays pending.
C6_SoftTimeout == [][C6_Step]_vars

C6_Witness ==
    \E c \in Calls :
        /\ call[c].pc = "done"
        /\ call[c].result = Pending
        /\ call[c].response = SoftResponse(c, now - call[c].startTime)
        /\ running /\ Has(call[c].requestId)
        /\ Entry(call[c].requestId).status = "pending"

\* ---- C7
GaveUp(c) ==
    /\ call[c].pc \in {"check", "sleep"}
    /\ call[c].result = Pending
    /\ call'[c].pc = "done"

\* C7: hard timeout.  A tools/call whose polling has lasted 7 days without a
\* terminal status ends with the JSON-RPC error 'Poll timeout after 7 days'.
C7_HardTimeout ==
    [][\A c \in Calls :
         (GaveUp(c) /\ now' - call[c].startTime >= MAX_POLL_TIME) =>
             call'[c].response = RpcError(c, ServerError, HardTimeoutMsg)]_vars

\* ---- C8
\* C8: a tools/call whose request stays pending keeps waiting for as long as
\* 7 days before it gives up.
C8_WaitsSevenDays ==
    [][\A c \in Calls : GaveUp(c) => now' - call[c].startTime >= MAX_POLL_TIME]_vars

C9_Step ==
    \A c \in Calls :
        (call[c].pc = "submit" /\ Stepped(c) /\ call'[c].result = Refused) =>
            /\ ~Connected(c)
            /\ call'[c].pc = "done"
            /\ call'[c].response = RpcError(c, ServerError, NotStartedMsg)
            /\ call'[c].polls = 0
            /\ UNCHANGED svcVars

C9_State ==
    \A c \in Calls :
        (call[c].result = Refused /\ call[c].polls = 0) =>
            /\ call[c].pc = "done"
            /\ call[c].response = RpcError(c, ServerError, NotStartedMsg)

NotStartedResponse(c) == RpcError(c, ServerError, NotStartedMsg)

\* C10: in the poll loop the counter holds the refused polls since the last
\* answered one; the call ends with the 'extension not started' JSON-RPC
\* error exactly when the counter exceeds 10, at the 11th refusal in a row,
\* and never with 10 or fewer.
C10_RefusalBudget ==
    \A c \in Calls :
        /\ call[c].pc \in {"poll", "sleep", "done"} =>
               call[c].connectionRefusedCount = call[c].streak
        /\ call[c].pc = "check" =>
               call[c].connectionRefusedCount =
                   IF call[c].result = Refused THEN call[c].streak - 1
                   ELSE IF call[c].result = Rejected THEN call[c].streak
                   ELSE call[c].connectionRefusedCount
        /\ call[c].connectionRefusedCount <= RefusalBudget + 1
        /\ call[c].connectionRefusedCount > RefusalBudget =>
               (call[c].pc = "done" /\ call[c].response = NotStartedResponse(c))
        /\ (call[c].polls > 0 /\ call[c].response = NotStartedResponse(c)) =>
               call[c].connectionRefusedCount = RefusalBudget + 1

\* The budget was used up after an answered poll had reset the counter.
C10_Witness ==
    \E c \in Calls :
        /\ call[c].pc = "done"
        /\ call[c].response = NotStartedResponse(c)
        /\ call[c].connectionRefusedCount = RefusalBudget + 1
        /\ call[c].polls > RefusalBudget + 1

\* ---- C11
Starting == ~running /\ running'
Persisted(id) == \E k \in 1..Len(stored) : stored[k].id = id
PersistedEntry(id) == stored[CHOOSE k \in 1..Len(stored) : stored[k].id = id]
Young(req) == (now - req.createdAt) < SEVEN_DAYS
Dispatched(id) == Has(id) /\ dispatch[pendingRequests[id]] \in {"opening", "waiting"}

\* C11 as stated: at startup every persisted entry younger than 7 days is put
\* back and re-dispatched, every other persisted entry is dropped.
C11_RestoreEveryYoungEntry ==
    [][Starting =>
         \A id \in Ids : Persisted(id) =>
             (Young(PersistedEntry(id)) <=> Dispatched(id)')]_vars

C11_Step ==
    Starting =>
        \A id \in Ids :
            /\ Has(id)' <=> /\ Persisted(id)
                            /\ PersistedEntry(id).status = "pending"
                            /\ Young(PersistedEntry(id))
            /\ Has(id)' =>
                   /\ Entry(id)' = PersistedEntry(id)
                   /\ Dispatched(id)'
            /\ stored' = stored

\* C11 amended: at startup every persisted entry that is pending and younger
\* than 7 days is put back in the ledger, as it was persisted, and dispatched
\* to the Collaborator; every other persisted entry (7 days old or older, or
\* already completed or error) is left out and not dispatched.
C11_RestorePendingYoung == [][C11_Step]_vars

\* A host started on a snapshot of two pending entries: the young one is back
\* and dispatched, the one of 7 days is left out.
C11_Witness ==
    \E i, j \in Ids :
        /\ running
        /\ Dispatched(i) /\ Persisted(i) /\ Entry(i).createdAt = now
        /\ ~Has(j) /\ Persisted(j) /\ PersistedEntry(j).status = "pending"
        /\ ~Young(PersistedEntry(j))

\* ---- C12
\* A terminal entry a poll could still be given: in the ledger of the running
\* service, or in the snapshot a later service starts from.
Kept(id) ==
    IF running THEN Has(id) /\ IsTerminal(Entry(id).status)
    ELSE Persisted(id) /\ IsTerminal(PersistedEntry(id).status)

Consumed(id) == hist[id].delivered = None /\ hist'[id].delivered # None
Swept(id) == Starting /\ ~Young(PersistedEntry(id))
Cleared == running /\ running' /\ pendingRequests' = NoRequests /\ stored' = <<>>

\* C12 as stated: an unobserved terminal entry stays retrievable, across
\* restarts too, until a poll consumes it or the 7-day sweep at startup
\* removes it.
C12_TerminalPersists ==
    [][\A id \in Ids :
         (Kept(id) /\ ~Kept(id)') => (Consumed(id) \/ Swept(id))]_vars

C12_Step ==
    /\ \A id \in Ids :
         (Kept(id) /\ ~Kept(id)') => (Consumed(id) \/ Cleared \/ Starting)
    /\ Starting => \A id \in Ids : ~Kept(id)'

\* C12 amended: an unobserved terminal entry stays retrievable only within
\* the service instance that recorded it: it is removed by a consuming poll,
\* by clearPendingRequests, and by every restart, whatever its age, since a
\* starting service puts back pending entries only.
C12_TerminalKeptUntilRestart == [][C12_Step]_vars

\* A service started on a snapshot holding a young completed entry that no
\* poll has seen: the entry is not in its ledger.
C12_Witness ==
    \E id \in Ids :
        /\ running
        /\ Persisted(id) /\ PersistedEntry(id).status = "completed"
        /\ Young(PersistedEntry(id))
        /\ hist[id].delivered = None
        /\ ~Has(id)

\* ---- C13
Formatted == applied.stage = "formatted"
Structured == Len(applied.input.images) > 0

C13_ImageBlocksOf(imgs) == [k \in 1..Len(imgs) |-> ImageBlock(imgs[k].data, imgs[k].mime)]
C13_Base64Image(u) == u.mime # "" /\ u.enc = ";base64," /\ u.data # ""

\* C13 as stated: a resolution {text, images} gives one text block holding
\* text followed by one image block per element of images, in order.
C13_TextThenEveryImage ==
    (Formatted /\ Structured) =>
        applied.content =
            <<TextBlock(applied.input.text)>> \o C13_ImageBlocksOf(applied.input.images)

\* C13 amended: a resolution {text, images} gives a text block holding text
\* when text is not empty, followed by one image block for each element of
\* images of the form data:<mime>;base64,<payload>, in their order, with
\* data the payload and mimeType the mime; other elements give no block, and
\* if nothing is left the content is one empty text block.
C13_TextThenBase64Images ==
    (Formatted /\ Structured) =>
        LET blocks ==
                (IF applied.input.text # "" THEN <<TextBlock(applied.input.text)>> ELSE <<>>)
                \o C13_ImageBlocksOf(SelectSeq(applied.input.images, C13_Base64Image))
        IN applied.content = IF blocks = <<>> THEN <<TextBlock("")>> ELSE blocks

\* Two base64 images and one that is not, formatted in order.
C13_Witness ==
    /\ Formatted
    /\ Len(applied.input.images) = 3
    /\ applied.content = <<TextBlock("ok"), ImageBlock("AAAA", "image/png"),
                           ImageBlock("BBBB", "image/jpeg")>>

\* ---- C14
\* C14: a resolution string that is not a JSON object carrying text or images
\* (a JSON number, boolean, string, array or object without text included)
\* is stored as one text block whose text is the string itself.
C14_PlainTextVerbatim ==
    (/\ Formatted
     /\ ~Structured
     /\ applied.input.text # "{\"text\":\"x\"}") =>
        applied.content = <<TextBlock(applied.input.text)>>

\* ---- C15
\* C15: the content is never empty, and the empty resolution gives exactly
\* one text block with empty text.
C15_NeverEmpty ==
    Formatted =>
        /\ Len(applied.content) >= 1
        /\ applied.feedback.str = "" => applied.content = <<TextBlock("")>>

C15_Witness ==
    /\ Formatted
    /\ applied.feedback.str = ""
    /\ applied.content = <<TextBlock("")>>

\* ---- C16
\* C16: when the Collaborator resolved a request with the plain text T, the
\* tools/call that polls the completed entry returns, under its own id, the
\* JSON-RPC result {content: [{type: text, text: T}]}.
C16_RoundTrip ==
    \A c \in Calls :
        (/\ call[c].pc = "done"
         /\ IsBody(call[c].result)
         /\ call[c].result.status = "completed") =>
            call[c].response =
                RpcResult(c, [content |->
                                <<TextBlock(hist[call[c].requestId].resolved)>>])

\* ---- C17
PortRead == applied.stage = "read"
ValidPortFile(f) ==
    f.exists /\ f.readable /\ f.json = "object" /\ f.port \in 1..65535

\* C17: getTargetPort never throws; it returns the port of a port file that
\* exists and holds a valid {port}, and DEFAULT_PORT when the file is
\* missing, unreadable, not JSON or without a port value.
C17_PortDiscovery ==
    PortRead =>
        /\ ~applied.out.threw
        /\ applied.out.port =
               IF ValidPortFile(applied.file) THEN applied.file.port ELSE DEFAULT_PORT

\* A port file that is not JSON was read, and the default port came back.
C17_Witness ==
    /\ PortRead
    /\ applied.file = GarbageFile
    /\ applied.out = [threw |-> FALSE, port |-> DEFAULT_PORT]

\* ---- C18
C18_State ==
    /\ (running /\ listening) =>
           /\ port \in EphemeralPorts
           /\ port # DEFAULT_PORT
           /\ portFile = port
    /\ (~running /\ lastExit = "graceful") => portFile = NoPort

C18_Step ==
    /\ (Starting /\ listening') => (port' # NoPort /\ portFile' = port')
    /\ (Starting /\ ~listening') => portFile' = portFile
    /\ (running /\ ~running' /\ lastExit' = "graceful") => portFile' = NoPort

C19_ErrorClassification ==
    \A c \in Calls :
        call[c].pc = "done" =>
            /\ call[c].response.id = call[c].mcpId
            /\ call[c].response.error # None =>
                   call[c].response.error.code # ParseError

\* ---- C20
Answerable(line) ==
    /\ line.method # "notifications/initialized"
    /\ line.method = "tools/call" => call[line.id].pc = "done"
ResponsesTo(line) == {j \in 1..Len(stdio.out) : stdio.out[j].id = line.id}

\* C20: a notifications/initialized line gets no output line; every other
\* line, once handled, has exactly one response line, carrying its id, also
\* with several tools/call lines in flight that end in any order.
C20_ResponseDiscipline ==
    /\ Len(stdio.out) =
           Cardinality({k \in 1..Len(stdio.in) : Answerable(stdio.in[k])})
    /\ \A k \in 1..Len(stdio.in) :
           Answerable(stdio.in[k]) => Cardinality(ResponsesTo(stdio.in[k])) = 1


\* ---- C21
Ended(i) == hist[i].resolved # EndSentinel /\ hist'[i].resolved = EndSentinel
SentinelResult == [content |-> <<TextBlock(EndSentinel)>>]

\* C21: when the end-conversation signal resolves the dispatch of a request,
\* the ledger then holds that request's entry as completed with the sentinel
\* as its text, which is what the next poll for the id answers with.
C21_EndConversationAnswersSentinel ==
    [][\A i \in Ids :
          Ended(i) =>
              /\ pendingRequests'[i] # 0
              /\ heap'[pendingRequests'[i]].status = "completed"
              /\ heap'[pendingRequests'[i]].result = SentinelResult]_vars


\* ---- C22
Untouched(i) ==
    /\ pendingRequests'[i] # 0
    /\ heap'[pendingRequests'[i]] = Entry(i)
OwnDispatchSettles(i) == ~hist[i].settled /\ hist'[i].settled
ServiceTraffic ==
    \/ \E d \in LongWaits : TimePasses(d)
    \/ \E id \in Ids : Poll(id)
    \/ \E params \in ParamKinds, viewReady \in BOOLEAN : Submit(params, viewReady)

\* C22: while the service runs, an entry that is pending in the ledger keeps
\* its status and payload through the passage of time, through polls for any
\* id and through submits of other requests; as long as it is in the ledger its
\* status and payload change only in the step in which its own dispatch
\* resolves or rejects.
C22_PendingChangedOnlyByOwnDispatch ==
    [][\A i \in Ids :
          (running /\ running' /\ Has(i) /\ Entry(i).status = "pending") =>
              /\ ServiceTraffic => Untouched(i)
              /\ (pendingRequests'[i] # 0 /\ ~Untouched(i)) => OwnDispatchSettles(i)]_vars

\* Two requests are pending at once, a long time after they were submitted.
C22_Witness ==
    /\ running
    /\ Cardinality(PendingIds) = 2
    /\ jumps = 1
    /\ \A i \in Ids : now - Entry(i).createdAt >= SOFT_TIMEOUT


\* ---- C23
\* C23: while the service runs, so after every mutation of the ledger
\* (insert, status change, consuming poll, clear, and the discard of entries
\* by the recovery at startup), the persisted array holds exactly the entries
\* of the ledger, with their status and payload.
C23_SnapshotIsLedger ==
    running => stored = persistRequests(pendingRequests, heap)


\* ---- C24
Live(o) == o \in 1..Len(dispatch) /\ dispatch[o] # "collected"
Fails(o) ==
    /\ o \in 1..Len(dispatch') /\ dispatch'[o] = "settled"
    /\ o > Len(dispatch) \/ dispatch[o] = "opening"
FailureOf(o) == IF o > Len(dispatch) THEN NoParamsMsg ELSE FocusFailedMsg

C24_Step ==
    \A o \in 1..MaxIds :
        Fails(o) =>
            /\ heap'[o].status = "error"
            /\ heap'[o].error = FailureOf(o)
            /\ stored' = persistRequests(pendingRequests', heap')
            /\ \E k \in 1..Len(stored') : stored'[k] = heap'[o]

C24_State ==
    \A o \in 1..MaxIds :
        (Live(o) /\ heap[o].status = "error") =>
            /\ dispatch[o] = "settled"
            /\ pendingResolve # o
            /\ \A q \in 1..MaxIds : (Live(q) /\ heap[q].id = heap[o].id) => q = o

\* C24: when the dispatch of a request fails (showMessage rejects, or
\* processRequest throws on a request without params), its entry becomes
\* error with the failure's message and the ledger is persisted with it; from
\* then on the request has no dispatch waiting on the Collaborator and no
\* resolver, neither its own nor a second one.
C24_FailureRecordedNotRetried ==
    []C24_State /\ [][C24_Step]_vars

\* A failed request sits in the ledger while the Collaborator is asked about
\* another request.
C24_Witness ==
    \E i, j \in Ids :
        /\ Has(i) /\ Entry(i).status = "error" /\ Entry(i).error = FocusFailedMsg
        /\ Has(j) /\ Entry(j).status = "pending" /\ pendingResolve = pendingRequests[j]


\* ---- C25
SoftlyDone(c) ==
    /\ call[c].pc = "done"
    /\ call[c].response.error = None
    /\ call[c].response.result.content[1].text = SoftTimeoutText
Orphaned(i) == \E c \in Calls : SoftlyDone(c) /\ call[c].requestId = i
FreshIds ==
    \A c, d \in Calls :
        (c # d /\ call[c].requestId # 0 /\ call[d].requestId # 0) =>
            call[c].requestId # call[d].requestId
Resubmits(d) ==
    /\ call[d].pc = "submit" /\ call'[d].pc = "poll"
    /\ \E i \in Ids : Orphaned(i)

C25_Step ==
    /\ \A d \in Calls :
           Resubmits(d) =>
               /\ ~Has(call[d].requestId) /\ Has(call[d].requestId)'
               /\ \A i \in Ids : (Orphaned(i) /\ Has(i)) => Untouched(i)
    /\ \A i \in Ids :
           Orphaned(i) =>
               /\ hist'[i].delivered = hist[i].delivered
               /\ (running /\ running' /\ Has(i) /\ ~Has(i)') => Cleared
               /\ (Starting /\ Persisted(i)) =>
                      (Has(i)' <=> (/\ PersistedEntry(i).status = "pending"
                                    /\ Young(PersistedEntry(i))))

TerminalPollAnswer(c) ==
    /\ IsBody(call[c].result)
    /\ call[c].result.status \in {"completed", "error"}

\* C26: once a poll of a tools/call was answered with status completed or
\* status error, the call sends no further poll.
C26_NoPollAfterTerminal ==
    [][\A c \in Calls :
          TerminalPollAnswer(c) => call'[c].polls = call[c].polls]_vars


\* ---- C27
Begins(c) == call[c].pc = "idle" /\ call'[c].pc = "submit"
Answered(c) == call'[c].result # call[c].result /\ IsBody(call'[c].result)
HoldsResult(c) == IsBody(call[c].result) /\ call[c].result.status = "completed"
Stale(c) ==
    /\ call[c].pc \in {"poll", "check", "sleep"}
    /\ running /\ listening /\ port # call[c].targetPort

C27_Step ==
    \A c \in Calls :
        /\ Begins(c) =>
               /\ call'[c].targetPort =
                      IF portFile # NoPort THEN portFile ELSE DEFAULT_PORT
               /\ (running /\ listening) => call'[c].targetPort = port
        /\ call[c].pc \notin {"idle", "none"} =>
               call'[c].targetPort = call[c].targetPort
        /\ Answered(c) => (running /\ listening /\ port = call[c].targetPort)
        /\ Stale(c) =>
               /\ hist'[call[c].requestId].delivered = hist[call[c].requestId].delivered
               /\ call'[c].polls > call[c].polls => ~IsBody(call'[c].result)
               /\ (call'[c].pc = "done" /\ ~HoldsResult(c)) =>
                      \/ call'[c].response.error # None
                      \/ call'[c].response.result.content[1].text = SoftTimeoutText

\* C27: a tools/call reads the port file once, when it starts, so a call that
\* starts after the service bound again targets the port recorded last; its
\* submit and all its polls go to that port; while the service listens on
\* another port than the one the call targets, no poll of the call is
\* answered, the request's result is not delivered and the call, unless a
\* poll answered before the restart gave it the result, ends, if it ends,
\* with an error or the soft-timeout text.
C27_PortReadOncePerCall == [][C27_Step]_vars

\* The service restarted onto another port, the re-dispatched request was
\* answered by the human there, and the call has polled the old port in vain.
C27_Witness ==
    \E c \in Calls :
        /\ Stale(c)
        /\ call[c].result = Refused
        /\ Has(call[c].requestId)
        /\ Entry(call[c].requestId).status = "completed"


\* ---- C28
\* C28: with two service instances of one user, the port file names the
\* port of the instance whose bind succeeded last, for as long as that
\* instance runs, whatever the other instance does.
C28_LastBindOwnsPortRecord ==
    /\ (peer.boundLast /\ peer.port # NoPort) => portFile = peer.port
    /\ (~peer.boundLast /\ running /\ listening) => portFile = port


\* ---- C29
Waits(o) == Live(o) /\ dispatch[o] = "waiting"
LiveNext(o) == o \in 1..Len(dispatch') /\ dispatch'[o] # "collected"
Answers(i) ==
    /\ hist[i].resolved = Undefined
    /\ hist'[i].resolved \notin {Undefined, EndSentinel}
NewlyWaiting ==
    {o \in 1..Len(dispatch') :
        /\ dispatch'[o] = "waiting"
        /\ Starting \/ o > Len(dispatch) \/ dispatch[o] = "opening"}
Latest(S) == CHOOSE o \in S : \A q \in S : q <= o

\* C29 as stated: the human's answer resolves the most recently dispatched
\* of the requests whose showMessage waits for the human, and only that one.
C29_AnswerResolvesLatestDispatch ==
    [][\A i \in Ids :
          Answers(i) =>
              /\ \A q \in 1..MaxIds : Waits(q) => q <= pendingResolve
              /\ \A j \in Ids \ {i} : Has(j) => Untouched(j)]_vars

C29_State ==
    pendingResolve # 0 => (Live(pendingResolve) /\ dispatch[pendingResolve] = "waiting")

C29_Step ==
    /\ NewlyWaiting # {} => pendingResolve' = Latest(NewlyWaiting)
    /\ \A i \in Ids :
           Answers(i) =>
               /\ pendingResolve # 0 /\ heap[pendingResolve].id = i
               /\ pendingResolve' = 0
               /\ Has(i) => (Has(i)' /\ Entry(i)'.status = "completed")
               /\ \A j \in Ids \ {i} : Has(j) => Untouched(j)
    /\ \A q \in 1..MaxIds :
           (Live(q) /\ dispatch[q] = "waiting" /\ pendingResolve # q /\ running') =>
               /\ pendingResolve' # q
               /\ LiveNext(q) => (dispatch'[q] = "waiting" /\ heap'[q] = heap[q])

\* C29 amended: the Collaborator holds at most one resolver, that of a
\* dispatch waiting in showMessage; the dispatch whose showMessage reaches
\* its promise last takes the resolver (at startup the last restored entry,
\* when the view exists), replacing the one held; the human's answer
\* completes only the request whose resolver is held and clears it; a
\* dispatch that lost the resolver never gets it back and its entry stays
\* pending.  The holder is the most recently dispatched request only when
\* the view existed at each dispatch: a dispatch that had to open the view
\* first installs its resolver later and takes it from a younger one.
C29_AnswerResolvesLastInstalled == []C29_State /\ [][C29_Step]_vars

\* The human answered the older of two requests in the ledger; the younger
\* one is still pending, waiting without a resolver.
C29_Witness ==
    \E i, j \in Ids :
        /\ i < j
        /\ running /\ Has(i) /\ Has(j)
        /\ Entry(i).status = "completed"
        /\ hist[i].resolved \notin {Undefined, EndSentinel}
        /\ Entry(j).status = "pending"
        /\ dispatch[pendingRequests[j]] = "waiting"
        /\ pendingResolve = 0


\* ---- C30
Resolved(i) == hist[i].resolved = Undefined /\ hist'[i].resolved # Undefined
BecomesCompleted(i) ==
    /\ Has(i)' /\ Entry(i)'.status = "completed"
    /\ ~(Has(i) /\ Entry(i).status = "completed")
NothingOutstanding ==
    /\ pendingResolve = 0
    /\ \A o \in 1..MaxIds : Live(o) => dispatch[o] = "settled"
PanelInput ==
    \/ \E feedback \in HumanFeedbacks : HumanInput(feedback)
    \/ EndConversation

\* C30 as stated: an input of the human (submit, option, fixed action, end
\* conversation) that arrives when no dispatch is outstanding changes nothing
\* in the ledger.
C30_InputWithoutResolverChangesNothing ==
    [][(NothingOutstanding /\ PanelInput) =>
           UNCHANGED <<pendingRequests, stored>>]_vars

C30_State ==
    \A o \in 1..MaxIds :
        (Live(o) /\ dispatch[o] = "settled") => pendingResolve # o

C30_Step ==
    /\ \A i \in Ids :
           /\ Resolved(i) =>
                  /\ pendingResolve # 0 /\ heap[pendingResolve].id = i
                  /\ pendingResolve' = 0
           /\ hist[i].resolved # Undefined => hist'[i].resolved = hist[i].resolved
           /\ BecomesCompleted(i) =>
                  (Resolved(i) /\ pendingResolve = pendingRequests[i])
    /\ (pendingResolve = 0 /\ EndConversation) =>
           (pendingRequests' = NoRequests /\ stored' = <<>>)

\* C30 amended: each dispatch is resolved at most once: an input of the
\* human resolves the promise whose resolver is held and clears the resolver;
\* a settled dispatch holds no resolver, the string it was resolved with
\* never changes, and an entry becomes completed only in the step in which
\* the input finds its resolver held, so a submit, option or fixed action
\* that finds no resolver completes nothing.  End conversation, also when no
\* request is outstanding, empties the ledger.
C30_ResolvedAtMostOnce == []C30_State /\ [][C30_Step]_vars

\* The human has answered a request and then ended the conversation with no
\* request outstanding: the completed entry, which no poll had seen, is gone.
C30_Witness ==
    \E i \in Ids :
        /\ running
        /\ pendingResolve = 0
        /\ hist[i].resolved \notin {Undefined, EndSentinel}
        /\ hist[i].delivered = None
        /\ ~Has(i)
        /\ stored = <<>>


\* ---- C31
C31_OneLine ==
    Len(stdio.out) <= Cardinality({c \in Calls : call[c].pc = "done"})

\* C31: every tools/call for panel_feedback eventually ends with its response
\* line written, and never has more lines been written than calls have ended
\* (so exactly one per call), whether or not the human answers, the service
\* runs or the polls fail.
C31_EveryCallResponds ==
    /\ []C31_OneLine
    /\ \A c \in Calls :
           (call[c].pc = "submit") ~> (call[c].pc = "done" /\ Len(stdio.out) >= 1)

\* A call nobody answered has ended with the soft-timeout text after the
\* 242 polls it takes to let more than SOFT_TIMEOUT pass.
C31_Witness ==
    \E c \in Calls :
        /\ SoftlyDone(c)
        /\ call[c].polls = 242
        /\ Len(stdio.out) = 1


\* ---- C32
\* C32: a tools/call returns the soft-timeout text only for a request that is
\* genuinely unanswered: the poll it gives up after was answered by the
\* service with status pending for the call's request id (the entry was not
\* terminal, consumed, cleared or lost).
C32_SoftTimeoutOnlyWhilePending ==
    [][\A c \in Calls :
          (~SoftlyDone(c) /\ SoftlyDone(c)') => call[c].result = Pending]_vars


\* ---- C33
Detached(o) == Live(o) /\ \A i \in Ids : pendingRequests[i] # o
LateSettle ==
    \E o \in Objects :
        /\ Detached(o)
        /\ \/ ShowMessageRejects(o)
           \/ pendingResolve = o /\ \E feedback \in HumanFeedbacks : HumanInput(feedback)
LedgerUnchanged ==
    /\ pendingRequests' = pendingRequests
    /\ \A i \in Ids : Has(i) => heap'[pendingRequests[i]] = Entry(i)
    /\ stored' = stored
Resubmitted(i) ==
    \E params \in ParamKinds, viewReady \in BOOLEAN : handleSubmit(i, params, viewReady)

C33_Step ==
    /\ (Clear \/ EndConversation) => (pendingRequests' = NoRequests /\ stored' = <<>>)
    /\ LateSettle => LedgerUnchanged
    /\ \A i \in Ids :
           (running /\ ~Has(i) /\ PollReply(i)' # NotFound) => Resubmitted(i)

\* C33: clearPendingRequests empties the ledger and the persisted array; when
\* the dispatch of a request that was cleared, or whose id was submitted again
\* and replaced, resolves or rejects afterwards, the ledger, its entries and
\* the persisted array stay as they are; an id that is not in the ledger is
\* answered not-found by every poll until it is submitted again.
C33_ClearedStaysCleared ==
    [][C33_Step]_vars

\* The dispatch of a cleared request has resolved and its id is not in the
\* ledger, while the old dispatch of a replaced entry has resolved or
\* rejected and the new entry is still pending.
C33_Witness ==
    \E i, j \in Ids :
        /\ running
        /\ hist[i].dropped /\ hist[i].settled /\ ~Has(i)
        /\ Has(j) /\ Entry(j).status = "pending" /\ hist[j].settled


\* ---- C34
C34_State ==
    portFile # NoPort => (running /\ listening /\ port = portFile)

C34_Step ==
    /\ (portFile' # portFile /\ portFile' # NoPort) =>
           (Starting /\ listening' /\ portFile' = port')
    /\ (Starting /\ ~listening') => portFile' = portFile
    /\ (listening /\ ~listening') => portFile' = NoPort

SameRequest(a, b) ==
    a.id = b.id /\ a.params = b.params /\ a.createdAt = b.createdAt
StaysPending(id) == Persisted(id) /\ PersistedEntry(id).status = "pending"

C35_State ==
    \A id \in Ids :
        (running /\ Has(id) /\ Persisted(id)) => SameRequest(Entry(id), PersistedEntry(id))

C35_Step ==
    \A id \in Ids :
        /\ (running /\ ~Has(id) /\ Has(id)') =>
               (Entry(id)'.id = id /\ Entry(id)'.createdAt = now)
        /\ (Has(id) /\ Has(id)') => SameRequest(Entry(id)', Entry(id))
        /\ (Persisted(id) /\ Persisted(id)') =>
               SameRequest(PersistedEntry(id)', PersistedEntry(id))
        /\ (Starting /\ StaysPending(id)) =>
               /\ StaysPending(id)'
               /\ IF now - PersistedEntry(id).createdAt < SEVEN_DAYS
                  THEN Dispatched(id)' /\ SameRequest(Entry(id)', PersistedEntry(id))
                  ELSE ~Has(id)'

\* C35: an entry gets its createdAt when it is submitted and keeps its id,
\* params and createdAt in the ledger and in the persisted array, through
\* restarts as well; at every startup a persisted pending entry is put back
\* and dispatched if less than 7 days have passed since that createdAt, and
\* is left out if 7 days or more have passed.
C35_AgeSurvivesRestarts ==
    []C35_State /\ [][C35_Step]_vars

\* A host started 7 days after a request was submitted and left the request,
\* still pending in the persisted array, out of its ledger.
C35_Witness ==
    \E id \in Ids :
        /\ running
        /\ StaysPending(id) /\ ~Has(id)
        /\ hist[id].dropped
        /\ now - PersistedEntry(id).createdAt >= SEVEN_DAYS


\* ---- C36
\* C36 as stated: every /submit whose body parses is answered
\* {status: accepted, requestId}.
C36_SubmitAlwaysAccepted ==
    applied.body.kind \in {"object", "null"} =>
        (IsBody(applied.out) /\ applied.out.status = "accepted")

Posted(kind) == applied' # applied /\ applied'.body.kind = kind
SyncFailure(id) ==
    Has(id) /\ Entry(id).status = "error" /\ Entry(id).error = NoParamsMsg

C36_Step ==
    /\ Posted("object") =>
           \E id \in Ids :
              /\ applied'.body.requestId = id
              /\ applied'.out = Accepted(id)
              /\ ~Has(id) /\ Has(id)' /\ Persisted(id)'
              /\ IF applied'.body.params = "missing"
                 THEN SyncFailure(id)' /\ PersistedEntry(id)' = Entry(id)'
                 ELSE Entry(id)'.status = "pending"
    /\ Posted("null") =>
           (applied'.out = ParseErrorBody /\ UNCHANGED <<svcVars, hist>>)
    /\ \A id \in Ids :
           SyncFailure(id) =>
               /\ hist[id].delivered = None
               /\ (Posted("poll") /\ applied'.body.requestId = id) =>
                      /\ applied'.out = Answer("error", None, NoParamsMsg)
                      /\ ~Has(id)'

\* C36 amended: every /submit whose body is a JSON object is answered
\* {status: accepted, requestId}, also when params or arguments are missing;
\* when params is missing the dispatch fails at once, the entry is recorded
\* and persisted as error before the answer, and the failure is reported by
\* the first poll for the id, which consumes the entry; a /submit whose body
\* is null is answered 400 Parse error and changes nothing.
C36_ObjectSubmitAlwaysAccepted ==
    [][C36_Step]_vars

\* The first poll for a request submitted without params has reported the
\* failure that the accepted answer of the submit did not mention.
C36_Witness ==
    \E id \in Ids :
        /\ applied.body.kind = "poll" /\ applied.body.requestId = id
        /\ applied.out = Answer("error", None, NoParamsMsg)
        /\ hist[id].acked.reply = Accepted(id)
        /\ hist[id].acked.status = "error"


\* ---- C37
KnownMethods == {"initialize", "tools/list", "notifications/initialized", "tools/call"}
ReadsLine == Len(stdio'.in) = Len(stdio.in) + 1
NewLine == stdio'.in[Len(stdio'.in)]

C37_Step ==
    (ReadsLine /\ NewLine.method \notin KnownMethods) =>
        /\ stdio'.out = Append(stdio.out, RpcResult(NewLine.id, EmptyResult))
        /\ NewLine.id # NullId
        /\ UNCHANGED <<svcVars, call, hist>>

\* C37: a line whose method is none of initialize, tools/list and
\* notifications/initialized and that is not a tools/call of panel_feedback
\* (an unknown method, or a tools/call naming another tool) is answered at
\* once with a result that is empty and carries the line's id; no request id
\* is generated, no call sends a submit or a poll, and the service and its
\* ledger stay as they are.
C37_OtherMethodsGetEmptyResult ==
    [][C37_Step]_vars

\* A tools/call naming another tool was answered with the empty result while
\* the service was running, and nothing was ever submitted.
C37_Witness ==
    /\ running /\ listening
    /\ nextId = 0 /\ pendingRequests = NoRequests /\ stored = <<>>
    /\ \E k \in 1..Len(stdio.in) :
           /\ stdio.in[k].method = "tools/call other_tool"
           /\ \E j \in 1..Len(stdio.out) :
                  stdio.out[j] = RpcResult(stdio.in[k].id, EmptyResult)

====
